---------------------------- MODULE Spec2Model ----------------------------
(***************************************************************************)
(* A model of todoist-mcp-shim (src/index.js): three tools that forward   *)
(* to the Todoist REST API, and the /mcp endpoint with its session-id     *)
(* keyed map of transports.                                               *)
(*                                                                         *)
(* JavaScript strings are TLA+ strings: \o is concatenation, Len the      *)
(* length and SubSeq the substring, so a template literal is modelled by  *)
(* the concatenation it performs.                                         *)
(***************************************************************************)
EXTENDS Integers, Sequences, FiniteSets, TLC

VARIABLES
    req,         \* SpecAccept: the request whose headers ensureAcceptHeader rewrites
    accept0,     \* SpecAccept: the Accept header as it came in
    accept1,     \* SpecAccept: the Accept header after the first call
    applied,     \* SpecAccept: number of calls of ensureAcceptHeader so far
    transports,  \* the map  session id -> transport  (src/index.js:132)
    tobj,        \* the transport objects created so far, by identity 1..Len(tobj)
    uuids,       \* number of session ids randomUUID() has produced
    pending,     \* transport.handleRequest calls awaited by a route handler
    nReq,        \* number of requests to /mcp received so far
    last,        \* what the route handler did with the latest request
    env,         \* process.env: the three token variables
    phase,       \* "boot" before line 10 has run, then "serving" or "exited"
    TOKEN,       \* the constant of src/index.js:10
    calls,       \* the tool invocations so far, each with its position and result
    outbox       \* the HTTP requests sent to the Todoist API, in order

acceptVars  == <<req, accept0, accept1, applied>>
sessionVars == <<transports, tobj, uuids, pending, nReq, last>>
toolVars    == <<env, phase, TOKEN, calls, outbox>>
vars == <<acceptVars, sessionVars, toolVars>>

-----------------------------------------------------------------------------
(* Bounds of the model.                                                    *)

MaxAtoms == 3        \* an incoming Accept header is made of at most this many atoms
MaxTransports == 2   \* transports created in one run
MaxRequests == 4     \* requests to /mcp in one run
MaxPending == 2      \* handleRequest calls in flight at once
MaxCalls == 1        \* tool invocations in one run

-----------------------------------------------------------------------------
(* JavaScript values and strings.                                          *)

\* A header (or optional argument) that is not there: JavaScript's undefined.
Absent == [set |-> FALSE, v |-> ""]
Str(s) == [set |-> TRUE, v |-> s]

\* x || "" for a header value: undefined and "" are both falsy.
OrEmpty(x) == IF x.set /\ x.v # "" THEN x.v ELSE ""

\* String.prototype.includes
Includes(s, needle) ==
    \E i \in 1..(Len(s) - Len(needle) + 1) :
        SubSeq(s, i, i + Len(needle) - 1) = needle

\* Array.prototype.join
RECURSIVE Join(_, _)
Join(parts, sep) ==
    IF parts = <<>> THEN ""
    ELSE IF Len(parts) = 1 THEN parts[1]
    ELSE parts[1] \o sep \o Join(Tail(parts), sep)

\* The tools are not in use: the process has not read its environment yet.
IdleTools ==
    /\ env = [TODOIST_API_TOKEN |-> Absent, TODOIST_TOKEN |-> Absent, TODOIST |-> Absent]
    /\ phase = "boot"
    /\ TOKEN = Absent
    /\ calls = <<>>
    /\ outbox = <<>>

-----------------------------------------------------------------------------
(* ensureAcceptHeader, src/index.js:147-155.                               *)

AppJson == "application/json"
EventStream == "text/event-stream"

\* A plausible slip: the missing types replace the header instead of being appended.
ensureAcceptHeaderReplacing(headers) ==
    LET raw == OrEmpty(headers.accept) IN
    IF ~Includes(raw, AppJson) \/ ~Includes(raw, EventStream)
    THEN LET parts == (IF ~Includes(raw, AppJson) THEN <<AppJson>> ELSE <<>>)
                      \o (IF ~Includes(raw, EventStream) THEN <<EventStream>> ELSE <<>>)
         IN [headers EXCEPT !.accept = Str(Join(parts, ", "))]
    ELSE headers

ensureAcceptHeader(headers) ==
    LET raw == OrEmpty(headers.accept) IN
    IF ~Includes(raw, AppJson) \/ ~Includes(raw, EventStream)
    THEN LET parts == (IF ~Includes(raw, AppJson) THEN <<AppJson>> ELSE <<>>)
                      \o (IF ~Includes(raw, EventStream) THEN <<EventStream>> ELSE <<>>)
         IN [headers EXCEPT
                !.accept = Str((IF raw # "" THEN raw \o ", " ELSE "") \o Join(parts, ", "))]
    ELSE headers

\* The pieces incoming Accept headers are made of.
AcceptAtoms == {AppJson, EventStream, ", ", "*/*", "-seq", "text/html;q=0.9"}

RECURSIVE AcceptStrings(_)
AcceptStrings(n) ==
    IF n = 0 THEN {""}
    ELSE LET shorter == AcceptStrings(n - 1) IN
         shorter \cup {s \o a : s \in shorter, a \in AcceptAtoms}

AcceptInputs == {Absent} \cup {Str(s) : s \in AcceptStrings(MaxAtoms)}

InitAccept ==
    /\ \E a \in AcceptInputs :
          /\ req = [headers |-> [accept |-> a, sid |-> Absent]]
          /\ accept0 = a
          /\ accept1 = a
    /\ applied = 0

IdleAccept ==
    /\ req = [headers |-> [accept |-> Absent, sid |-> Absent]]
    /\ accept0 = Absent
    /\ accept1 = Absent
    /\ applied = 0

\* One call ensureAcceptHeader(req); the model makes two in a row.
CallEnsureAcceptHeader ==
    /\ applied < 2
    /\ req' = [req EXCEPT !.headers = ensureAcceptHeader(req.headers)]
    /\ accept1' = IF applied = 0 THEN req'.headers.accept ELSE accept1
    /\ applied' = applied + 1
    /\ UNCHANGED accept0
    /\ UNCHANGED <<sessionVars, toolVars>>


-----------------------------------------------------------------------------
(* The transports map and makeTransport, src/index.js:132-144.            *)

\* randomUUID(): the n-th call yields a session id no earlier call yielded.
randomUUID(n) == "uuid-" \o ToString(n)

\* Names every plain object {} inherits from Object.prototype: transports[name]
\* yields the inherited member, a truthy value that is no transport.
ObjectPrototypeKeys == {"constructor", "__proto__", "toString"}

Undefined == [kind |-> "undefined", id |-> 0]

\* transports[key] on the plain object of line 132
Property(key) ==
    IF key \in DOMAIN transports THEN [kind |-> "transport", id |-> transports[key]]
    ELSE IF key \in ObjectPrototypeKeys THEN [kind |-> "inherited", id |-> 0]
    ELSE Undefined

\* A plausible slip: the session header is never consulted.
LookupIgnoringHeader(headers) == Undefined

\* req.headers["mcp-session-id"] ? transports[req.headers["mcp-session-id"]] : undefined
Lookup(headers) ==
    IF headers.sid.set /\ headers.sid.v # "" THEN Property(headers.sid.v) ELSE Undefined

\* getServer(): a new McpServer with the three tools registered (src/index.js:20-103)
getServer(n) == [id |-> n, tools |-> {"search", "fetch", "add-task"}]

\* The transport object makeTransport returns, connected to a server of its own.
makeTransport(n) == [sessionId |-> Absent, closed |-> FALSE, server |-> getServer(n)]

\* transport.onsessioninitialized = (sid) => (transports[sid] = transport)
onsessioninitialized(map, t, sid) ==
    [k \in DOMAIN map \cup {sid} |-> IF k = sid THEN t ELSE map[k]]

\* A plausible slip: the test of sessionId is inverted, so nothing is deleted.
oncloseInverted(map, transport) ==
    IF ~(transport.sessionId.set /\ transport.sessionId.v # "")
    THEN [k \in DOMAIN map \ {transport.sessionId.v} |-> map[k]]
    ELSE map

\* transport.onclose = () => { if (transport.sessionId) delete transports[transport.sessionId] }
onclose(map, transport) ==
    IF transport.sessionId.set /\ transport.sessionId.v # ""
    THEN [k \in DOMAIN map \ {transport.sessionId.v} |-> map[k]]
    ELSE map

-----------------------------------------------------------------------------
(* The /mcp routes, src/index.js:160-191.                                  *)

\* Accept headers of incoming requests
RequestAccepts == {Absent, Str(AppJson), Str(EventStream)}

\* mcp-session-id headers of incoming requests: none, empty, a name of
\* Object.prototype, and every id the server may issue (not yet issued,
\* registered, or closed by the time the request arrives).
RequestSids ==
    {Absent, Str(""), Str("constructor")}
        \cup {Str(randomUUID(n)) : n \in 1..MaxTransports}

\* JSON-RPC bodies of a POST: an initialize request or any other message
Bodies == {"initialize", "other"}

RequestHeaders == [accept : RequestAccepts, sid : RequestSids]

\* await transport.handleRequest(req, res, body) on transport t
Call(method, t, headers, body) ==
    [method |-> method, transport |-> t, accept |-> OrEmpty(headers.accept), body |-> body]

Handled(method, headers, outcome, t, created, status, text) ==
    [n |-> nReq + 1, method |-> method, sid |-> headers.sid, accept |-> headers.accept,
     outcome |-> outcome, transport |-> t, created |-> created,
     status |-> status, text |-> text]

\* let transport = ...lookup...; if (!transport) transport = makeTransport();
\* await transport.handleRequest(req, res, body)       (lines 164-168 and 177-181)
\* `incoming` are the headers as received, `headers` the ones ensureAcceptHeader left.
LookupOrMake(method, incoming, headers, body) ==
    LET found == Lookup(headers) IN
    CASE found.kind = "transport" ->
            /\ Cardinality(pending) < MaxPending
            /\ pending' = pending \cup {Call(method, found.id, headers, body)}
            /\ last' = Handled(method, incoming, "delegated", found.id, FALSE, 0, "")
            /\ UNCHANGED <<transports, tobj, uuids>>
      [] found.kind = "inherited" ->
            \* transport.handleRequest is not a function: the handler rejects
            /\ last' = Handled(method, incoming, "threw", 0, FALSE, 0, "TypeError")
            /\ UNCHANGED <<transports, tobj, uuids, pending>>
      [] found.kind = "undefined" ->
            /\ Len(tobj) < MaxTransports
            /\ Cardinality(pending) < MaxPending
            /\ tobj' = Append(tobj, makeTransport(Len(tobj) + 1))
            /\ pending' = pending \cup {Call(method, Len(tobj) + 1, headers, body)}
            /\ last' = Handled(method, incoming, "delegated", Len(tobj) + 1, TRUE, 0, "")
            /\ UNCHANGED <<transports, uuids>>

\* res.json({ status: "ready", tools: ["search", "fetch", "add-task"] })
Ready == "{\"status\":\"ready\",\"tools\":[\"search\",\"fetch\",\"add-task\"]}"

\* app.get("/mcp", ...), lines 160-172
Get(headers) ==
    /\ nReq < MaxRequests
    /\ nReq' = nReq + 1
    /\ IF Includes(OrEmpty(headers.accept), EventStream)
       THEN LookupOrMake("GET", headers, ensureAcceptHeader(headers), "none")
       ELSE /\ last' = Handled("GET", headers, "replied", 0, FALSE, 200, Ready)
            /\ UNCHANGED <<transports, tobj, uuids, pending>>
    /\ UNCHANGED <<acceptVars, toolVars>>

\* app.post("/mcp", ...), lines 175-182
Post(headers, body) ==
    /\ nReq < MaxRequests
    /\ nReq' = nReq + 1
    /\ LookupOrMake("POST", headers, ensureAcceptHeader(headers), body)
    /\ UNCHANGED <<acceptVars, toolVars>>

\* app.delete("/mcp", ...), lines 185-191
Delete(headers) ==
    /\ nReq < MaxRequests
    /\ nReq' = nReq + 1
    /\ LET found == Lookup(headers) IN
       CASE found.kind = "undefined" ->
               /\ last' = Handled("DELETE", headers, "replied", 0, FALSE, 200, "ok")
               /\ UNCHANGED <<transports, tobj, uuids, pending>>
         [] found.kind = "inherited" ->
               /\ last' = Handled("DELETE", headers, "threw", 0, FALSE, 0, "TypeError")
               /\ UNCHANGED <<transports, tobj, uuids, pending>>
         [] found.kind = "transport" ->
               /\ Cardinality(pending) < MaxPending
               /\ pending' = pending \cup {Call("DELETE", found.id, headers, "none")}
               /\ last' = Handled("DELETE", headers, "delegated", found.id, FALSE, 0, "")
               /\ UNCHANGED <<transports, tobj, uuids>>
    /\ UNCHANGED <<acceptVars, toolVars>>

-----------------------------------------------------------------------------
(* What the transport does with a delegated request.  The transport is the *)
(* SDK's; the model keeps of it what reaches the two callbacks of lines    *)
(* 137-140, taking the SDK to call both as the code expects: a POST        *)
(* carrying an initialize request to a transport without a session starts  *)
(* the session (once per transport, with the id randomUUID() returns) and  *)
(* calls onsessioninitialized, a DELETE closes the transport and calls     *)
(* onclose, and everything else is answered without touching the session.  *)
(* A request is answered at any later time: other requests interleave.     *)

StartsSession(c) ==
    /\ c.method = "POST"
    /\ c.body = "initialize"
    /\ Includes(c.accept, AppJson) /\ Includes(c.accept, EventStream)
    /\ ~tobj[c.transport].sessionId.set

ClosesSession(c) ==
    /\ c.method = "DELETE"
    /\ tobj[c.transport].sessionId.set

\* handleRequest on an initialize request: the session id is generated and
\* onsessioninitialized(sid) runs.
SessionInitialized(c) ==
    /\ c \in pending
    /\ StartsSession(c)
    /\ uuids' = uuids + 1
    /\ tobj' = [tobj EXCEPT ![c.transport].sessionId = Str(randomUUID(uuids + 1))]
    /\ transports' = onsessioninitialized(transports, c.transport, randomUUID(uuids + 1))
    /\ pending' = pending \ {c}
    /\ UNCHANGED <<nReq, last>>
    /\ UNCHANGED <<acceptVars, toolVars>>

\* handleRequest on a DELETE: the transport closes and onclose() runs.
SessionClosed(c) ==
    /\ c \in pending
    /\ ClosesSession(c)
    /\ tobj' = [tobj EXCEPT ![c.transport].closed = TRUE]
    /\ transports' = onclose(transports, tobj[c.transport])
    /\ pending' = pending \ {c}
    /\ UNCHANGED <<uuids, nReq, last>>
    /\ UNCHANGED <<acceptVars, toolVars>>

\* handleRequest on anything else: a response (a JSON-RPC reply, an SSE
\* stream, or a 4xx rejection) and no callback.
Answered(c) ==
    /\ c \in pending
    /\ ~StartsSession(c)
    /\ ~ClosesSession(c)
    /\ pending' = pending \ {c}
    /\ UNCHANGED <<transports, tobj, uuids, nReq, last>>
    /\ UNCHANGED <<acceptVars, toolVars>>

InitSessions ==
    /\ transports = <<>>
    /\ tobj = <<>>
    /\ uuids = 0
    /\ pending = {}
    /\ nReq = 0
    /\ last = [n |-> 0, method |-> "none", sid |-> Absent, accept |-> Absent,
               outcome |-> "none", transport |-> 0,
               created |-> FALSE, status |-> 0, text |-> ""]

Init == IdleAccept /\ InitSessions /\ IdleTools

Next ==
    \/ \E h \in RequestHeaders : Get(h)
    \/ \E h \in RequestHeaders, b \in Bodies : Post(h, b)
    \/ \E h \in RequestHeaders : Delete(h)
    \/ \E c \in pending : SessionInitialized(c)
    \/ \E c \in pending : SessionClosed(c)
    \/ \E c \in pending : Answered(c)

Spec == Init /\ [][Next]_vars

InitA == InitAccept /\ InitSessions /\ IdleTools

NextA == CallEnsureAcceptHeader

SpecAccept == InitA /\ [][NextA]_vars

-----------------------------------------------------------------------------
(* Properties of the transports map and of the /mcp routes.                *)

Transports == 1..Len(tobj)

\* The header names a session that is in the map right now.
Registered(sid) == sid.set /\ sid.v \in DOMAIN transports

RequestStep == nReq' = nReq + 1

WantsEventStream(r) == Includes(OrEmpty(r.accept), EventStream)

OnlyOpenSessions ==
    /\ \A k \in DOMAIN transports :
          /\ transports[k] \in Transports
          /\ tobj[transports[k]].sessionId = Str(k)
          /\ ~tobj[transports[k]].closed
    /\ \A j, k \in DOMAIN transports : transports[j] = transports[k] => j = k

MapStep ==
    \* an entry appears only for a transport whose session starts in this step
    /\ \A k \in DOMAIN transports' \ DOMAIN transports :
          /\ ~tobj[transports'[k]].sessionId.set
          /\ tobj'[transports'[k]].sessionId = Str(k)
    \* a closing transport takes exactly its own entry with it
    /\ \A t \in Transports :
          (~tobj[t].closed /\ tobj'[t].closed) =>
              /\ tobj[t].sessionId.v \notin DOMAIN transports'
              /\ transports' =
                    [k \in DOMAIN transports \ {tobj[t].sessionId.v} |-> transports[k]]
    \* and no entry changes or goes away otherwise
    /\ \A k \in DOMAIN transports :
          IF k \in DOMAIN transports'
          THEN transports'[k] = transports[k]
          ELSE ~tobj[transports[k]].closed /\ tobj'[transports[k]].closed

\* C6: the transports map holds only open sessions: every key maps to a
\* transport with that session id that is not closed, distinct keys map to
\* distinct transports, an entry appears only when its transport's session
\* is initialized, and a closing transport removes exactly its own entry.
C6_MapHoldsOpenSessions == []OnlyOpenSessions /\ [][MapStep]_vars

\* One session is registered while another, once registered, is closed and gone.
C6_Witness ==
    /\ DOMAIN transports # {}
    /\ \E t \in Transports :
          /\ tobj[t].closed
          /\ tobj[t].sessionId.set
          /\ tobj[t].sessionId.v \notin DOMAIN transports

\* The request of this step went to the transport registered under its header.
HandledBySession(r) ==
    /\ r.outcome = "delegated"
    /\ r.transport = transports[r.sid.v]
    /\ ~r.created
    /\ \E c \in pending' : c.transport = r.transport /\ c.method = r.method

\* Transports appear one at a time, from makeTransport in a POST or in a GET
\* that accepts an event stream, for a header that names no registered session.
CreatesOnlyWhenUnknown ==
    /\ Len(tobj') >= Len(tobj)
    /\ Len(tobj') # Len(tobj) =>
          /\ RequestStep
          /\ Len(tobj') = Len(tobj) + 1
          /\ last'.created /\ last'.transport = Len(tobj')
          /\ last'.method = "POST" \/ (last'.method = "GET" /\ WantsEventStream(last'))
          /\ ~Registered(last'.sid)
          /\ ~tobj'[Len(tobj')].sessionId.set /\ ~tobj'[Len(tobj')].closed
          /\ \A t \in Transports : tobj[t].server.id # tobj'[Len(tobj')].server.id
    /\ RequestStep /\ Registered(last'.sid) => tobj' = tobj /\ ~last'.created

\* C7 as stated: every request whose header names a registered session is
\* handled by that session's transport and creates none; a transport is created
\* only by a POST, or a GET accepting text/event-stream, without a registered session.
C7_Original ==
    [][/\ CreatesOnlyWhenUnknown
       /\ RequestStep /\ Registered(last'.sid) => HandledBySession(last')]_vars

\* C7 amended: a request whose header names a registered session creates no
\* transport and is handled by that session's transport, except a GET whose
\* Accept lacks text/event-stream, which the route answers itself with 200
\* and the "ready" JSON; a transport is created only by a POST, or a GET accepting
\* text/event-stream, whose header is absent or names no registered session.
C7_RegisteredSessionIsReused ==
    [][/\ CreatesOnlyWhenUnknown
       /\ RequestStep /\ Registered(last'.sid) =>
             IF last'.method = "GET" /\ ~WantsEventStream(last')
             THEN last'.outcome = "replied" /\ last'.status = 200 /\ last'.text = Ready
             ELSE HandledBySession(last')]_vars

\* The latest request named a registered session and went to its transport.
C7_Witness ==
    /\ Registered(last.sid)
    /\ last.outcome = "delegated"
    /\ last.transport = transports[last.sid.v]
    /\ Len(tobj) = MaxTransports

\* C8 as stated: DELETE without a session header, or with one that names no
\* registered session, answers 200 "ok", creates no transport and leaves the
\* map unchanged; DELETE on a registered session goes to its transport only.
C8_DeleteUnknownIsOk ==
    [][RequestStep /\ last'.method = "DELETE" =>
          /\ tobj' = tobj /\ transports' = transports
          /\ IF Registered(last'.sid)
             THEN /\ HandledBySession(last')
                  /\ pending' \ pending \subseteq {c \in pending' : c.transport = last'.transport}
             ELSE /\ last'.outcome = "replied"
                  /\ last'.status = 200 /\ last'.text = "ok"
                  /\ pending' = pending]_vars

\* C10 as stated: a transport whose requests have all been handled is either
\* registered under its session id or closed, and when nothing is in flight
\* there are as many open transports as entries in the map.
C10_NoTransportLeaked ==
    /\ \A t \in Transports :
          (\A c \in pending : c.transport # t) =>
              \/ tobj[t].closed
              \/ /\ Registered(tobj[t].sessionId)
                 /\ transports[tobj[t].sessionId.v] = t
    /\ pending = {} =>
          Cardinality({t \in Transports : ~tobj[t].closed}) = Cardinality(DOMAIN transports)

-----------------------------------------------------------------------------
(* ensureAcceptHeader as a function of the incoming header.                *)

HasBoth(s) == Includes(s, AppJson) /\ Includes(s, EventStream)

StartsWith(s, prefix) ==
    Len(prefix) <= Len(s) /\ SubSeq(s, 1, Len(prefix)) = prefix

\* C9: after ensureAcceptHeader the Accept header contains (as String.includes
\* tests it) both application/json and text/event-stream, the incoming value
\* is kept as a prefix, a header that had both is left as it was, and a second
\* call changes nothing.
C9_EnsureAcceptHeader ==
    /\ applied >= 1 =>
          /\ HasBoth(OrEmpty(req.headers.accept))
          /\ StartsWith(OrEmpty(req.headers.accept), OrEmpty(accept0))
          /\ HasBoth(OrEmpty(accept0)) => req.headers.accept = accept0
          /\ ~HasBoth(OrEmpty(accept0)) => req.headers.accept.set
    /\ applied = 2 => req.headers.accept = accept1
    /\ req.headers.sid = Absent

\* "text/event-stream" came in; application/json was appended, once.
C9_Witness ==
    /\ applied = 2
    /\ accept0 = Str(EventStream)
    /\ req.headers.accept = Str("text/event-stream, application/json")

-----------------------------------------------------------------------------
(* JSON.parse and JSON.stringify.  A JavaScript value is a record tagged   *)
(* with its type.  The parser reads the JSON made of objects, arrays,      *)
(* strings with the escapes \" \\ \/, non-negative integers, true, false,  *)
(* null and blanks; every response body of the model is either such a text *)
(* or no JSON at all.                                                      *)

JUndefined == [t |-> "undefined"]
JNull == [t |-> "null"]
JBool(b) == [t |-> "bool", v |-> b]
JNum(n) == [t |-> "num", v |-> n]
JStr(x) == [t |-> "str", v |-> x]
JArr(elems) == [t |-> "arr", v |-> elems]
JObj(members) == [t |-> "obj", v |-> members]

Char(s, i) == IF i >= 1 /\ i <= Len(s) THEN SubSeq(s, i, i) ELSE ""

StartsAt(s, i, lit) ==
    i + Len(lit) - 1 <= Len(s) /\ SubSeq(s, i, i + Len(lit) - 1) = lit

Digits == {"0", "1", "2", "3", "4", "5", "6", "7", "8", "9"}

DigitValue(c) ==
    CASE c = "0" -> 0 [] c = "1" -> 1 [] c = "2" -> 2 [] c = "3" -> 3 [] c = "4" -> 4
      [] c = "5" -> 5 [] c = "6" -> 6 [] c = "7" -> 7 [] c = "8" -> 8 [] c = "9" -> 9

\* The outcome of reading one value: the value and the index after it.
Failed == [ok |-> FALSE, val |-> JNull, next |-> 0]
Parsed(v, n) == [ok |-> TRUE, val |-> v, next |-> n]

RECURSIVE SkipWs(_, _)
SkipWs(s, i) == IF Char(s, i) = " " THEN SkipWs(s, i + 1) ELSE i

\* From the index after the opening quote to the closing one.
RECURSIVE ScanString(_, _, _)
ScanString(s, i, acc) ==
    LET c == Char(s, i) IN
    IF c = "" THEN Failed
    ELSE IF c = "\"" THEN Parsed(JStr(acc), i + 1)
    ELSE IF c = "\\"
         THEN IF Char(s, i + 1) \in {"\"", "\\", "/"}
              THEN ScanString(s, i + 2, acc \o Char(s, i + 1))
              ELSE Failed
    ELSE ScanString(s, i + 1, acc \o c)

RECURSIVE ScanDigits(_, _, _)
ScanDigits(s, i, n) ==
    IF Char(s, i) \in Digits
    THEN ScanDigits(s, i + 1, 10 * n + DigitValue(Char(s, i)))
    ELSE Parsed(JNum(n), i)

\* No leading zeros: after "0" the number is over.
ParseNumber(s, i) ==
    IF Char(s, i) = "0" THEN Parsed(JNum(0), i + 1) ELSE ScanDigits(s, i, 0)

RECURSIVE ParseValue(_, _)
RECURSIVE ParseElements(_, _, _)
RECURSIVE ParseMembers(_, _, _)

ParseValue(s, from) ==
    LET i == SkipWs(s, from)
        c == Char(s, i)
    IN  CASE c = "{" ->
                IF Char(s, SkipWs(s, i + 1)) = "}"
                THEN Parsed(JObj(<<>>), SkipWs(s, i + 1) + 1)
                ELSE ParseMembers(s, i + 1, <<>>)
          [] c = "[" ->
                IF Char(s, SkipWs(s, i + 1)) = "]"
                THEN Parsed(JArr(<<>>), SkipWs(s, i + 1) + 1)
                ELSE ParseElements(s, i + 1, <<>>)
          [] c = "\"" -> ScanString(s, i + 1, "")
          [] c \in Digits -> ParseNumber(s, i)
          [] c = "n" -> IF StartsAt(s, i, "null") THEN Parsed(JNull, i + 4) ELSE Failed
          [] c = "t" -> IF StartsAt(s, i, "true") THEN Parsed(JBool(TRUE), i + 4) ELSE Failed
          [] c = "f" -> IF StartsAt(s, i, "false") THEN Parsed(JBool(FALSE), i + 5) ELSE Failed
          [] OTHER -> Failed

\* The elements of an array, from the start of an element.
ParseElements(s, i, acc) ==
    LET r == ParseValue(s, i) IN
    IF ~r.ok THEN Failed
    ELSE LET j == SkipWs(s, r.next) IN
         IF Char(s, j) = "," THEN ParseElements(s, j + 1, Append(acc, r.val))
         ELSE IF Char(s, j) = "]" THEN Parsed(JArr(Append(acc, r.val)), j + 1)
         ELSE Failed

\* The members of an object, from the start of a member; a repeated key
\* keeps its last value.
ParseMembers(s, i, acc) ==
    LET k0 == SkipWs(s, i) IN
    IF Char(s, k0) # "\"" THEN Failed
    ELSE LET k == ScanString(s, k0 + 1, "") IN
         IF ~k.ok THEN Failed
         ELSE LET colon == SkipWs(s, k.next) IN
              IF Char(s, colon) # ":" THEN Failed
              ELSE LET r == ParseValue(s, colon + 1) IN
                   IF ~r.ok THEN Failed
                   ELSE LET j == SkipWs(s, r.next)
                            more == [x \in DOMAIN acc \cup {k.val.v} |->
                                        IF x = k.val.v THEN r.val ELSE acc[x]]
                        IN  IF Char(s, j) = "," THEN ParseMembers(s, j + 1, more)
                            ELSE IF Char(s, j) = "}" THEN Parsed(JObj(more), j + 1)
                            ELSE Failed

\* JSON.parse(text): the value, or a SyntaxError.
JSONparse(text) ==
    LET r == ParseValue(text, 1) IN
    IF r.ok /\ SkipWs(text, r.next) = Len(text) + 1
    THEN [threw |-> FALSE, val |-> r.val]
    ELSE [threw |-> TRUE, val |-> JUndefined]

\* The escaping JSON.stringify applies inside a string (of the characters the
\* model's arguments use, only " and \ need it).
RECURSIVE Escape(_)
Escape(s) ==
    IF s = "" THEN ""
    ELSE LET c == SubSeq(s, 1, 1) IN
         (IF c = "\"" THEN "\\\"" ELSE IF c = "\\" THEN "\\\\" ELSE c)
             \o Escape(SubSeq(s, 2, Len(s)))

Quote(s) == "\"" \o Escape(s) \o "\""

\* JSON.stringify of an object of optional strings, given as <<key, value>>
\* pairs in property order: a property that is undefined is left out.
RECURSIVE Present(_)
Present(pairs) ==
    IF pairs = <<>> THEN <<>>
    ELSE (IF pairs[1][2].set
          THEN <<Quote(pairs[1][1]) \o ":" \o Quote(pairs[1][2].v)>>
          ELSE <<>>) \o Present(Tail(pairs))

JSONstringify(pairs) == "{" \o Join(Present(pairs), ",") \o "}"

\* obj.name for any value obj other than null and undefined
Prop(obj, name) ==
    IF obj.t = "obj" /\ name \in DOMAIN obj.v THEN obj.v[name] ELSE JUndefined

\* The value in a boolean context
Truthy(x) ==
    CASE x.t \in {"undefined", "null"} -> FALSE
      [] x.t = "bool" -> x.v
      [] x.t = "num" -> x.v # 0
      [] x.t = "str" -> x.v # ""
      [] OTHER -> TRUE

\* `${x}`
RECURSIVE ToJSString(_)
RECURSIVE JoinValues(_)
ToJSString(x) ==
    CASE x.t = "undefined" -> "undefined"
      [] x.t = "null" -> "null"
      [] x.t = "bool" -> IF x.v THEN "true" ELSE "false"
      [] x.t = "num" -> ToString(x.v)
      [] x.t = "str" -> x.v
      [] x.t = "arr" -> JoinValues(x.v)
      [] OTHER -> "[object Object]"

\* Array.prototype.toString: null and undefined elements are empty
JoinValues(elems) ==
    IF elems = <<>> THEN ""
    ELSE (IF elems[1].t \in {"undefined", "null"} THEN "" ELSE ToJSString(elems[1]))
             \o (IF Len(elems) > 1 THEN "," \o JoinValues(Tail(elems)) ELSE "")

-----------------------------------------------------------------------------
(* Startup and the three tool handlers, src/index.js:9-100.                *)

TODOIST_API == "https://api.todoist.com/api/v1"

\* a || b
Or(a, b) == IF a.set /\ a.v # "" THEN a ELSE b

\* Lines 10-18: TOKEN is read from the environment, and without one the
\* process exits before any route or tool exists.
Start ==
    /\ phase = "boot"
    /\ TOKEN' = Or(Or(env.TODOIST_API_TOKEN, env.TODOIST_TOKEN), env.TODOIST)
    /\ phase' = IF TOKEN'.set /\ TOKEN'.v # "" THEN "serving" ELSE "exited"
    /\ UNCHANGED <<env, calls, outbox>>
    /\ UNCHANGED <<acceptVars, sessionVars>>

\* One call of fetch(url, options) by invocation `call`.  `params` are the
\* pairs set through url.searchParams, in order.
Request(call, method, url, params, contentType, body) ==
    [call |-> call, method |-> method, url |-> url, params |-> params,
     authorization |-> "Bearer " \o ToJSString(IF TOKEN.set THEN JStr(TOKEN.v) ELSE JUndefined),
     contentType |-> contentType, body |-> body]

NoResponse == [status |-> 0, ok |-> FALSE, text |-> ""]
NoResult == [threw |-> FALSE, error |-> "", content |-> <<>>]
Returned(content) == [threw |-> FALSE, error |-> "", content |-> content]
Threw(error) == [threw |-> TRUE, error |-> error, content |-> <<>>]

Invoke(tool, args) ==
    [tool |-> tool, args |-> args, pc |-> "fetch", res |-> NoResponse, result |-> NoResult]

\* The handler of search up to its first await, lines 35-39
Search(query, limit) ==
    /\ phase = "serving"
    /\ Len(calls) < MaxCalls
    /\ calls' = Append(calls, Invoke("search", [query |-> query, limit |-> limit]))
    /\ outbox' = Append(outbox,
          Request(Len(calls) + 1, "GET", TODOIST_API \o "/tasks/filter",
                  << <<"query", query>>,
                     <<"limit", ToString(IF limit.set THEN limit.v ELSE 50)>> >>,
                  Absent, Absent))
    /\ UNCHANGED <<env, phase, TOKEN>>
    /\ UNCHANGED <<acceptVars, sessionVars>>

\* The handler of fetch up to its first await, lines 64-68
Fetch(kind, id) ==
    /\ phase = "serving"
    /\ Len(calls) < MaxCalls
    /\ calls' = Append(calls, Invoke("fetch", [kind |-> kind, id |-> id]))
    /\ outbox' = Append(outbox,
          Request(Len(calls) + 1, "GET",
                  TODOIST_API \o (IF kind = "task" THEN "/tasks/" \o id ELSE "/projects/" \o id),
                  <<>>, Absent, Absent))
    /\ UNCHANGED <<env, phase, TOKEN>>
    /\ UNCHANGED <<acceptVars, sessionVars>>

\* The handler of add-task up to its first await, lines 87-95
AddTask(content, project_id, due_string) ==
    /\ phase = "serving"
    /\ Len(calls) < MaxCalls
    /\ calls' = Append(calls, Invoke("add-task",
          [content |-> content, project_id |-> project_id, due_string |-> due_string]))
    /\ outbox' = Append(outbox,
          Request(Len(calls) + 1, "POST", TODOIST_API \o "/tasks", <<>>,
                  Str("application/json"),
                  Str(JSONstringify(<< <<"content", Str(content)>>,
                                       <<"project_id", project_id>>,
                                       <<"due_string", due_string>> >>))))
    /\ UNCHANGED <<env, phase, TOKEN>>
    /\ UNCHANGED <<acceptVars, sessionVars>>

TextItem(text) == [type |-> "text", text |-> text]

\* A plausible slip: the body of the error response is dropped.
todoistErrorWithoutBody(res) ==
    Returned(<<TextItem("Todoist error " \o ToString(res.status))>>)

\* { content: [{ type: "text", text: `Todoist error ${res.status}: ${text}` }] }
todoistError(res) ==
    Returned(<<TextItem("Todoist error " \o ToString(res.status) \o ": " \o res.text)>>)

\* t.due?.date ?? "no date"
DueDate(t) ==
    LET due == Prop(t, "due")
        date == IF due.t \in {"undefined", "null"} THEN JUndefined ELSE Prop(due, "date")
    IN  IF date.t \in {"undefined", "null"} THEN JStr("no date") ELSE date

\* The resource link of lines 45-51 ("*" stands for the bullet U+2022).
Link(t) ==
    [type |-> "resource_link",
     uri |-> "todoist://task/" \o ToJSString(Prop(t, "id")),
     name |-> IF Truthy(Prop(t, "content")) THEN Prop(t, "content")
              ELSE JStr("task " \o ToJSString(Prop(t, "id"))),
     mimeType |-> "application/json",
     description |-> ToJSString(DueDate(t)) \o " * project "
                        \o ToJSString(Prop(t, "project_id"))]

RECURSIVE Links(_)
Links(results) ==
    IF results = <<>> THEN <<>> ELSE <<Link(results[1])>> \o Links(Tail(results))

\* Array.isArray(data?.results) ? data.results : []
ResultsOf(data) ==
    IF Prop(data, "results").t = "arr" THEN Prop(data, "results").v ELSE <<>>

\* The handler of search after the response is read, lines 41-52.  Reading a
\* property of null (an element of results) is a TypeError.
searchResult(query, res) ==
    IF ~res.ok THEN todoistError(res)
    ELSE LET parsed == JSONparse(res.text) IN
         IF parsed.threw THEN Threw("SyntaxError")
         ELSE LET results == ResultsOf(parsed.val) IN
              IF \E i \in 1..Len(results) : results[i].t = "null"
              THEN Threw("TypeError")
              ELSE Returned(
                      <<TextItem("Found " \o ToString(Len(results))
                                    \o " task(s) for \"" \o query \o "\".")>>
                          \o Links(results))

\* A plausible slip: only 200 counts as success.
passThroughOnly200(res) ==
    IF res.status # 200 THEN todoistError(res) ELSE Returned(<<TextItem(res.text)>>)

\* The handlers of fetch and add-task after the response is read,
\* lines 69-71 and 96-98.
passThrough(res) ==
    IF ~res.ok THEN todoistError(res) ELSE Returned(<<TextItem(res.text)>>)

\* What fetch() resolves to: res.status, res.ok and the text of the body.
Response(status, text) ==
    [status |-> status, ok |-> status >= 200 /\ status <= 299, text |-> text]

\* Invocation c once its handler has run from the await to its end on `res`.
Finished(c, res) ==
    LET result == IF calls[c].tool = "search"
                  THEN searchResult(calls[c].args.query, res)
                  ELSE passThrough(res)
    IN  [calls EXCEPT ![c].pc = IF result.threw THEN "threw" ELSE "returned",
                      ![c].res = res,
                      ![c].result = result]

\* A plausible slip: a response that is not OK makes the handler send its
\* request once more before it gives up.
RespondRetrying(c, status, text) ==
    /\ c \in 1..Len(calls)
    /\ calls[c].pc = "fetch"
    /\ IF Response(status, text).ok \/ Cardinality({i \in 1..Len(outbox) : outbox[i].call = c}) > 1
       THEN /\ calls' = Finished(c, Response(status, text))
            /\ UNCHANGED outbox
       ELSE /\ outbox' = Append(outbox,
                             outbox[CHOOSE i \in 1..Len(outbox) : outbox[i].call = c])
            /\ UNCHANGED calls
    /\ UNCHANGED <<env, phase, TOKEN>>
    /\ UNCHANGED <<acceptVars, sessionVars>>

\* The response arrives: the handler of invocation c runs from its await to
\* its return (or to the exception it lets escape).
Respond(c, status, text) ==
    /\ c \in 1..Len(calls)
    /\ calls[c].pc = "fetch"
    /\ calls' = Finished(c, Response(status, text))
    /\ UNCHANGED <<env, phase, TOKEN, outbox>>
    /\ UNCHANGED <<acceptVars, sessionVars>>

\* fetch() or res.text() rejects (no connection, a broken body): the handler
\* has no catch, the rejection escapes.
NetworkError(c) ==
    /\ c \in 1..Len(calls)
    /\ calls[c].pc = "fetch"
    /\ calls' = [calls EXCEPT ![c].pc = "threw", ![c].result = Threw("TypeError")]
    /\ UNCHANGED <<env, phase, TOKEN, outbox>>
    /\ UNCHANGED <<acceptVars, sessionVars>>

\* Values of an environment variable: not set, empty, set
EnvValues == {Absent, Str(""), Str("0123456789abcdef")}

Queries == {"next 7 days & project: Volunteers"}
Limits == {[set |-> FALSE, v |-> 0], [set |-> TRUE, v |-> 200]}
Kinds == {"task", "project"}
Ids == {"6X7rM8997g3RQmvh", "filter"}
Contents == {"Call \"venue\""}
ProjectIds == {Absent, Str("6Jf8VQXxpwv56VQ7")}
DueStrings == {Str("next Tuesday 10am")}

Statuses == {200, 204, 404, 500}

\* Response bodies: a page of two tasks, a page holding null, one entity,
\* an HTML error page and the empty body.
Texts ==
    {"{\"results\":[{\"id\":\"7\",\"content\":\"Call venue\",\"project_id\":\"p9\",\"due\":{\"date\":\"2026-01-02\"}},{\"id\":8,\"content\":\"\",\"due\":null}],\"next_cursor\":null}",
     "{\"results\":[null]}",
     "{\"id\":\"7\",\"content\":\"Call venue\"}",
     "<html>Bad Gateway</html>",
     ""}

InitTools ==
    /\ env \in [TODOIST_API_TOKEN : EnvValues, TODOIST_TOKEN : EnvValues, TODOIST : EnvValues]
    /\ phase = "boot"
    /\ TOKEN = Absent
    /\ calls = <<>>
    /\ outbox = <<>>

InitT == IdleAccept /\ InitSessions /\ InitTools

NextT ==
    \/ Start
    \/ \E q \in Queries, l \in Limits : Search(q, l)
    \/ \E k \in Kinds, id \in Ids : Fetch(k, id)
    \/ \E c \in Contents, p \in ProjectIds, d \in DueStrings : AddTask(c, p, d)
    \/ \E c \in 1..MaxCalls, st \in Statuses, tx \in Texts : Respond(c, st, tx)
    \/ \E c \in 1..MaxCalls : NetworkError(c)

SpecTools == InitT /\ [][NextT]_vars

-----------------------------------------------------------------------------
(* Properties of the tool handlers.                                        *)

Calls == 1..Len(calls)

RequestsOf(c) == {i \in 1..Len(outbox) : outbox[i].call = c}

\* The response invocation c has read
Answer(c) == calls[c].res

\* Invocation c has read a complete response and run to its end.
HasAnswer(c) == calls[c].pc # "fetch" /\ calls[c].res.status # 0

OkStatus(status) == status \in 200..299

\* C1: every invocation of a tool issues exactly one HTTP request, from its
\* start to its return and whatever the response: never none, never a second.
C1_OneRequestPerInvocation ==
    /\ \A c \in Calls : Cardinality(RequestsOf(c)) = 1
    /\ \A i \in 1..Len(outbox) : outbox[i].call \in Calls
    /\ Len(outbox) = Len(calls)

\* An invocation has returned after a 500, and one request was sent.
C1_Witness ==
    \E c \in Calls :
        /\ calls[c].pc = "returned"
        /\ Answer(c).status = 500
        /\ Cardinality(RequestsOf(c)) = 1

\* C2: a response whose status is not OK makes the tool return (not throw)
\* exactly one text item, "Todoist error <status>: <body>", and no link.
C2_ErrorPassedThroughAsText ==
    \A c \in Calls :
        HasAnswer(c) /\ ~OkStatus(Answer(c).status) =>
            /\ calls[c].pc = "returned"
            /\ ~calls[c].result.threw
            /\ Len(calls[c].result.content) = 1
            /\ calls[c].result.content[1].type = "text"
            /\ calls[c].result.content[1].text =
                  "Todoist error " \o ToString(Answer(c).status) \o ": " \o Answer(c).text

\* search has returned the error text of a 404 whose body is an HTML page.
C2_Witness ==
    \E c \in Calls :
        /\ calls[c].tool = "search"
        /\ calls[c].pc = "returned"
        /\ Answer(c).status = 404
        /\ calls[c].result.content[1].text = "Todoist error 404: <html>Bad Gateway</html>"

SearchEndpoint == <<"GET", TODOIST_API \o "/tasks/filter">>
AddTaskEndpoint == <<"POST", TODOIST_API \o "/tasks">>

Endpoint(r) == <<r.method, r.url>>

\* The object JSON.stringify({content, project_id, due_string}) stands for
Fields(args) ==
    LET keys == {"content"}
                  \cup (IF args.project_id.set THEN {"project_id"} ELSE {})
                  \cup (IF args.due_string.set THEN {"due_string"} ELSE {})
    IN  [k \in keys |-> JStr(IF k = "content" THEN args.content
                             ELSE IF k = "project_id" THEN args.project_id.v
                             ELSE args.due_string.v)]

\* The request carries the parameters of its own invocation, to the method
\* and URL of its tool.
ForwardsOwnParameters(r) ==
    LET c == calls[r.call] IN
    CASE c.tool = "search" ->
            /\ Endpoint(r) = SearchEndpoint
            /\ r.params = << <<"query", c.args.query>>,
                             <<"limit", IF c.args.limit.set THEN ToString(c.args.limit.v)
                                        ELSE "50">> >>
            /\ r.body = Absent
      [] c.tool = "fetch" ->
            /\ r.method = "GET"
            /\ r.url = TODOIST_API \o (IF c.args.kind = "task" THEN "/tasks/" ELSE "/projects/")
                          \o c.args.id
            /\ r.params = <<>>
            /\ r.body = Absent
      [] c.tool = "add-task" ->
            /\ Endpoint(r) = AddTaskEndpoint
            /\ r.params = <<>>
            /\ r.body.set
            /\ ~JSONparse(r.body.v).threw
            /\ JSONparse(r.body.v).val = JObj(Fields(c.args))

\* A request of fetch never goes to the endpoint of search or of add-task.
StaysOnOwnEndpoint(r) ==
    calls[r.call].tool = "fetch" => Endpoint(r) \notin {SearchEndpoint, AddTaskEndpoint}

CarriesToken(r) ==
    /\ TOKEN.set /\ TOKEN.v # ""
    /\ r.authorization = "Bearer " \o TOKEN.v

EnvHasToken ==
    \E name \in DOMAIN env : env[name].set /\ env[name].v # ""

\* Without a token variable the process exits and serves nothing.
ExitsWithoutToken ==
    /\ phase = "serving" => EnvHasToken /\ TOKEN \in {env[name] : name \in DOMAIN env}
    /\ phase = "exited" => ~EnvHasToken
    /\ phase # "serving" => calls = <<>> /\ outbox = <<>>

\* C3 as stated: each call goes to the endpoint and method of its own tool
\* with its own parameters, no call reaches another tool's endpoint, and every
\* request carries Authorization: Bearer <TOKEN> with a non-empty TOKEN.
C3_ForwardedToOwnEndpoint ==
    /\ ExitsWithoutToken
    /\ \A i \in 1..Len(outbox) :
          /\ ForwardsOwnParameters(outbox[i])
          /\ CarriesToken(outbox[i])
          /\ StaysOnOwnEndpoint(outbox[i])

\* C4: an OK response to fetch or add-task is returned as exactly one text
\* item whose text is the response body, unchanged.
C4_BodyPassedThrough ==
    \A c \in Calls :
        HasAnswer(c) /\ OkStatus(Answer(c).status) /\ calls[c].tool \in {"fetch", "add-task"} =>
            /\ calls[c].pc = "returned"
            /\ ~calls[c].result.threw
            /\ Len(calls[c].result.content) = 1
            /\ calls[c].result.content[1].type = "text"
            /\ calls[c].result.content[1].text = Answer(c).text

\* add-task has returned the empty body of a 204 as it came.
C4_Witness ==
    \E c \in Calls :
        /\ calls[c].tool = "add-task"
        /\ calls[c].pc = "returned"
        /\ Answer(c).status = 204
        /\ Answer(c).text = ""
        /\ calls[c].result.content = <<TextItem("")>>

\* The tasks an OK response lists: its results array, or none without one.
Listed(text) ==
    IF JSONparse(text).threw THEN <<>> ELSE ResultsOf(JSONparse(text).val)

\* C5 as stated: every OK response to search yields one summary text item
\* followed by one resource link per task of the results array, in order,
\* with uri todoist://task/<id>; the summary counts the links; without a
\* results array there are no links; and no OK response ends in an exception.
C5_SearchYieldsLinks ==
    \A c \in Calls :
        HasAnswer(c) /\ OkStatus(Answer(c).status) /\ calls[c].tool = "search" =>
            LET tasks == Listed(Answer(c).text)
                content == calls[c].result.content
            IN  /\ calls[c].pc = "returned"
                /\ ~calls[c].result.threw
                /\ Len(content) = 1 + Len(tasks)
                /\ content[1].type = "text"
                /\ content[1].text = "Found " \o ToString(Len(content) - 1)
                                        \o " task(s) for \"" \o calls[c].args.query \o "\"."
                /\ \A i \in 1..Len(tasks) :
                      /\ content[i + 1].type = "resource_link"
                      /\ content[i + 1].uri = "todoist://task/" \o ToJSString(Prop(tasks[i], "id"))

=============================================================================
